---- MODULE Spec2Model ----
(***************************************************************************)
(* A model of PidController (src/src/lib.rs): a discrete-time PID          *)
(* controller with exponential smoothing of the derivative term and an    *)
(* anti-windup gate on the integral term.                                  *)
(*                                                                         *)
(* f64 values are modelled as <<num, den>>:                                *)
(*   den > 0  a finite value num/den in lowest terms,                      *)
(*   <<1,0>>  +infinity,  <<-1,0>>  -infinity,  <<0,0>>  NaN.              *)
(* The arithmetic follows IEEE 754 on the special values and is exact on   *)
(* the finite ones: every finite value the model reaches is a dyadic       *)
(* rational of small magnitude, on which f64 arithmetic is exact too.      *)
(* Rounding, overflow to infinity and the sign of zero are not modelled    *)
(* (a zero is +0.0).                                                       *)
(***************************************************************************)
EXTENDS Integers, Sequences, FiniteSets, TLC

\* ------------------------------------------------------------- bounds

\* step is called at most MaxSteps times in a run of Spec
MaxSteps == 3

\* step is called at most MaxStepsAny times in a run of SpecAny
MaxStepsAny == 1

\* ------------------------------------------------------------- f64

Abs(a) == IF a < 0 THEN -a ELSE a

RECURSIVE GCD(_, _)
GCD(a, b) == IF b = 0 THEN a ELSE GCD(b, a % b)

\* the finite value n/m (m # 0) in lowest terms with a positive denominator
R(n, m) ==
    LET s == IF m < 0 THEN -1 ELSE 1
        g == GCD(Abs(n), Abs(m))
    IN  <<(s * n) \div g, (s * m) \div g>>

Zero == R(0, 1)
One == R(1, 1)
Half == R(1, 2)
PInf == <<1, 0>>
NInf == <<-1, 0>>
NaN == <<0, 0>>

IsNaN(x) == x = NaN
IsInf(x) == x = PInf \/ x = NInf
IsFinite(x) == x[2] > 0
Sign(x) == IF x[1] > 0 THEN 1 ELSE IF x[1] < 0 THEN -1 ELSE 0
Inf(s) == IF s > 0 THEN PInf ELSE NInf

FNeg(x) == <<-x[1], x[2]>>

\* x + y
FAdd(x, y) ==
    IF IsNaN(x) \/ IsNaN(y) THEN NaN
    ELSE IF IsInf(x) /\ IsInf(y) THEN (IF x = y THEN x ELSE NaN)
    ELSE IF IsInf(x) THEN x
    ELSE IF IsInf(y) THEN y
    ELSE R(x[1] * y[2] + y[1] * x[2], x[2] * y[2])

\* x - y
FSub(x, y) == FAdd(x, FNeg(y))

\* x * y
FMul(x, y) ==
    IF IsNaN(x) \/ IsNaN(y) THEN NaN
    ELSE IF IsInf(x) \/ IsInf(y)
         THEN (IF Sign(x) * Sign(y) = 0 THEN NaN ELSE Inf(Sign(x) * Sign(y)))
    ELSE R(x[1] * y[1], x[2] * y[2])

\* x / y
FDiv(x, y) ==
    IF IsNaN(x) \/ IsNaN(y) THEN NaN
    ELSE IF IsInf(x) /\ IsInf(y) THEN NaN
    ELSE IF IsInf(x) THEN (IF Sign(y) < 0 THEN FNeg(x) ELSE x)
    ELSE IF IsInf(y) THEN Zero
    ELSE IF Sign(y) = 0 THEN (IF Sign(x) = 0 THEN NaN ELSE Inf(Sign(x)))
    ELSE R(x[1] * y[2], x[2] * y[1])

\* x < y (false when either is NaN)
FLt(x, y) ==
    IF IsNaN(x) \/ IsNaN(y) THEN FALSE
    ELSE IF x = y THEN FALSE
    ELSE IF x = NInf \/ y = PInf THEN TRUE
    ELSE IF x = PInf \/ y = NInf THEN FALSE
    ELSE x[1] * y[2] < y[1] * x[2]

\* x >= y (false when either is NaN)
FGe(x, y) == ~IsNaN(x) /\ ~IsNaN(y) /\ ~FLt(x, y)

\* x <= y (false when either is NaN)
FLe(x, y) == FGe(y, x)

\* ------------------------------------------------------------- inputs

\* error samples: finite
ErrArgs == {R(-1, 1), Zero, One}

\* arguments of set_kp, set_ki, set_kd in the documented domain (>= 0)
KpArgs == {Zero, R(2, 1)}
KiArgs == {Zero, One}
KdArgs == {Zero, One}

\* arguments of set_smooth in the documented domain [0,1]
SmoothArgs == {Zero, Half, One}

\* setter arguments outside the domains; the non-finite ones every setter
\* rejects; and +infinity, which passes the test k >= 0.0 of the gain setters
\* (it is given to set_kp, whose test set_ki and set_kd repeat) and fails that
\* of set_smooth
BadGainArgs == {R(-1, 1)}
BadSmoothArgs == {R(-1, 2), R(3, 2)}
Rejected == {NaN, NInf}

\* constructor arguments <<dt, <<clamp_lo, clamp_hi>>>> within the documented
\* contract dt > 0, clamp_lo < clamp_hi
CtorArgs ==
    { <<One, <<R(-10, 1), R(10, 1)>>>>,
      <<R(2, 1), <<R(-3, 1), R(3, 1)>>>>,
      <<R(2, 1), <<One, R(5, 1)>>>> }

\* constructor arguments outside it, which new accepts as well: it performs
\* no validation
BadCtorArgs ==
    { <<Zero, <<R(-10, 1), R(10, 1)>>>>,
      <<R(-1, 1), <<R(3, 1), R(-3, 1)>>>> }

\* ------------------------------------------------------------- state

VARIABLES
    dt, kp, ki, kd, clamp_lo, clamp_hi, smooth, p, i, d, unclamped, e_prev,
    \* history: the arguments given to new
    new_dt, new_clamp,
    \* history: the most recent call <<name, argument>> and the value it
    \* returned (Zero stands for the unit value of new and of the setters)
    call, ret,
    \* history: the number of steps so far
    n,
    \* history: <<z, sum>>, z = every step so far ran with kp = ki = kd = 0,
    \* and sum = the sum of the errors fed so far while z (Zero once z is false)
    zrun

ctl == <<dt, kp, ki, kd, clamp_lo, clamp_hi, smooth, p, i, d, unclamped, e_prev>>
hist == <<new_dt, new_clamp, call, ret, n, zrun>>
vars == <<ctl, hist>>

\* ------------------------------------------------------------- new

\* mutant: the clamp pair stored the wrong way round
New_ClampSwapped(dt0, clamp) ==
    /\ dt = dt0
    /\ kp = Zero
    /\ ki = Zero
    /\ kd = Zero
    /\ clamp_lo = clamp[2]
    /\ clamp_hi = clamp[1]
    /\ smooth = One
    /\ p = Zero
    /\ i = Zero
    /\ d = Zero
    /\ unclamped = TRUE
    /\ e_prev = Zero
    /\ new_dt = dt0
    /\ new_clamp = clamp
    /\ call = <<"new", dt0>>
    /\ ret = Zero
    /\ n = 0
    /\ zrun = <<TRUE, Zero>>

\* PidController::new(dt0, clamp): no argument is validated
New(dt0, clamp) ==
    /\ dt = dt0
    /\ kp = Zero
    /\ ki = Zero
    /\ kd = Zero
    /\ clamp_lo = clamp[1]
    /\ clamp_hi = clamp[2]
    /\ smooth = One
    /\ p = Zero
    /\ i = Zero
    /\ d = Zero
    /\ unclamped = TRUE
    /\ e_prev = Zero
    /\ new_dt = dt0
    /\ new_clamp = clamp
    /\ call = <<"new", dt0>>
    /\ ret = Zero
    /\ n = 0
    /\ zrun = <<TRUE, Zero>>

\* ------------------------------------------------------------- step

\* mutant: the gate tests the flag the wrong way round
StepI_GateInverted(unc, i0, dt0, e) == IF unc THEN i0 ELSE FAdd(i0, FMul(dt0, e))

\* mutant: no anti-windup gate, every sample is integrated
StepI_NoGate(unc, i0, dt0, e) == FAdd(i0, FMul(dt0, e))

\* mutant: the sample is integrated without the time step
StepI_NoDt(unc, i0, dt0, e) == IF unc THEN FAdd(i0, e) ELSE i0

\* if self.unclamped { self.i += self.dt * e; }
StepI(unc, i0, dt0, e) == IF unc THEN FAdd(i0, FMul(dt0, e)) ELSE i0

\* mutant: the difference is not divided by the time step
StepD_NoDt(sm, e, ep, dt0, d0) ==
    FAdd(FMul(sm, FSub(e, ep)), FMul(FSub(One, sm), d0))

\* self.smooth * (e - self.e_prev) / self.dt + (1.0 - self.smooth) * self.d
StepD(sm, e, ep, dt0, d0) ==
    FAdd(FDiv(FMul(sm, FSub(e, ep)), dt0), FMul(FSub(One, sm), d0))

\* mutant: the derivative term is left out of the output
StepU_NoDerivative(kp0, e, ki0, i1, kd0, d1) ==
    FAdd(FMul(kp0, e), FMul(ki0, i1))

\* self.kp * e + self.ki * self.i + self.kd * self.d
StepU(kp0, e, ki0, i1, kd0, d1) ==
    FAdd(FAdd(FMul(kp0, e), FMul(ki0, i1)), FMul(kd0, d1))

\* mutant: the comparisons are not strict
StepUnclamped_NonStrict(lo, hi, u) == FLe(lo, u) /\ FLe(u, hi)

\* (self.clamp_lo < u) && (u < self.clamp_hi)
StepUnclamped(lo, hi, u) == FLt(lo, u) /\ FLt(u, hi)

\* mutant: step records the proportional term
StepP_Assigned(p0, kp0, e) == FMul(kp0, e)

\* the proportional term after step(e): step does not assign self.p
StepP(p0, kp0, e) == p0

\* PidController::step(e), returning ret'
Step(e) ==
    LET i1 == StepI(unclamped, i, dt, e)
        d1 == StepD(smooth, e, e_prev, dt, d)
        u == StepU(kp, e, ki, i1, kd, d1)
    IN  /\ i' = i1
        /\ p' = StepP(p, kp, e)
        /\ d' = d1
        /\ unclamped' = StepUnclamped(clamp_lo, clamp_hi, u)
        /\ e_prev' = e
        /\ ret' = u
        /\ call' = <<"step", e>>
        /\ n' = n + 1
        /\ zrun' = IF zrun[1] /\ kp = Zero /\ ki = Zero /\ kd = Zero
                   THEN <<TRUE, FAdd(zrun[2], e)>>
                   ELSE <<FALSE, Zero>>
        /\ UNCHANGED <<dt, kp, ki, kd, clamp_lo, clamp_hi, smooth>>
        /\ UNCHANGED <<new_dt, new_clamp>>

\* ------------------------------------------------------------- setters

\* mutant: the test written as !(kp < 0.0), which NaN passes
KpOk_NotNegative(k) == ~FLt(k, Zero)

\* kp >= 0.0
KpOk(k) == FGe(k, Zero)

\* ki >= 0.0
KiOk(k) == FGe(k, Zero)

\* kd >= 0.0
KdOk(k) == FGe(k, Zero)

\* mutant: only the upper end of the range is tested
SmoothOk_UpperOnly(s) == FLe(s, One)

\* (0.0..=1.0).contains(&smooth)
SmoothOk(s) == FLe(Zero, s) /\ FLe(s, One)

\* PidController::set_kp(k)
SetKp(k) ==
    /\ kp' = IF KpOk(k) THEN k ELSE kp
    /\ call' = <<"set_kp", k>>
    /\ UNCHANGED <<dt, ki, kd, clamp_lo, clamp_hi, smooth, p, i, d, unclamped, e_prev>>
    /\ ret' = Zero
    /\ UNCHANGED <<new_dt, new_clamp, n, zrun>>

\* PidController::set_ki(k)
SetKi(k) ==
    /\ ki' = IF KiOk(k) THEN k ELSE ki
    /\ call' = <<"set_ki", k>>
    /\ UNCHANGED <<dt, kp, kd, clamp_lo, clamp_hi, smooth, p, i, d, unclamped, e_prev>>
    /\ ret' = Zero
    /\ UNCHANGED <<new_dt, new_clamp, n, zrun>>

\* PidController::set_kd(k)
SetKd(k) ==
    /\ kd' = IF KdOk(k) THEN k ELSE kd
    /\ call' = <<"set_kd", k>>
    /\ UNCHANGED <<dt, kp, ki, clamp_lo, clamp_hi, smooth, p, i, d, unclamped, e_prev>>
    /\ ret' = Zero
    /\ UNCHANGED <<new_dt, new_clamp, n, zrun>>

\* PidController::set_smooth(s)
SetSmooth(s) ==
    /\ smooth' = IF SmoothOk(s) THEN s ELSE smooth
    /\ call' = <<"set_smooth", s>>
    /\ UNCHANGED <<dt, kp, ki, kd, clamp_lo, clamp_hi, p, i, d, unclamped, e_prev>>
    /\ ret' = Zero
    /\ UNCHANGED <<new_dt, new_clamp, n, zrun>>

\* ------------------------------------------------------------- specifications

\* new accepts any arguments
Init == \E c \in CtorArgs \cup BadCtorArgs : New(c[1], c[2])

\* The setters given arguments in their domains, step given finite errors.

Next ==
    \/ \E e \in ErrArgs : n < MaxSteps /\ Step(e)
    \/ \E k \in KpArgs : SetKp(k)
    \/ \E k \in KiArgs : SetKi(k)
    \/ \E k \in KdArgs : SetKd(k)
    \/ \E s \in SmoothArgs : SetSmooth(s)

Spec == Init /\ [][Next]_vars

\* The setters given any arguments, out-of-domain and non-finite ones
\* included.
NextAny ==
    \/ \E e \in ErrArgs : n < MaxStepsAny /\ Step(e)
    \/ \E k \in KpArgs \cup BadGainArgs \cup Rejected \cup {PInf} : SetKp(k)
    \/ \E k \in KiArgs \cup BadGainArgs \cup Rejected : SetKi(k)
    \/ \E k \in KdArgs \cup BadGainArgs \cup Rejected : SetKd(k)
    \/ \E s \in SmoothArgs \cup BadSmoothArgs \cup Rejected \cup {PInf} : SetSmooth(s)

SpecAny == Init /\ [][NextAny]_vars

\* ------------------------------------------------------------- properties

\* a transition is a call of step iff it counts a step; otherwise it is a
\* call of the setter that call' names
IsStep == n' = n + 1
IsSetter(name) == n' = n /\ call'[1] = name

\* the argument of the call a transition makes (the formulas below bind it,
\* and the other values of the next state they compute with, by \A x \in {..})
Arg == call'[2]

\* u lies strictly inside (clamp_lo, clamp_hi)
StrictlyInside(u) == FLt(clamp_lo, u) /\ FLt(u, clamp_hi)

\* a is a non-negative number; a lies in [0,1]
NonNegative(a) == a = Zero \/ FLt(Zero, a)
InUnitInterval(a) == NonNegative(a) /\ (a = One \/ FLt(a, One))

\* C1. Anti-windup gate: a call step(e) sets i to i + dt*e exactly when
\* unclamped was true at the start of the call and leaves i unchanged when it
\* was false; the flag at the start of a call is true before the first step and
\* otherwise tells whether the raw output of the most recent step lay strictly
\* inside (clamp_lo, clamp_hi), the setters never touching it.
C1_AntiWindupGate ==
    [][ /\ IsStep /\ unclamped => \A e \in {Arg} : i' = FAdd(i, FMul(dt, e))
        /\ IsStep /\ ~unclamped => i' = i
        /\ n = 0 => unclamped
        /\ call[1] = "step" => (unclamped <=> StrictlyInside(ret))
        /\ ~IsStep => unclamped' = unclamped /\ i' = i ]_vars

\* C1 witness: two steps with all gains zero on a controller whose clamp range
\* excludes 0: the first output 0 saturates, the second sample is not integrated.
C1_Witness ==
    /\ n = 2
    /\ call = <<"step", One>>
    /\ zrun = <<TRUE, R(2, 1)>>
    /\ dt = R(2, 1)
    /\ i = R(2, 1)
    /\ ~unclamped

\* C2. step(e) returns the raw value kp*e + ki*i' + kd*d' computed from the
\* integral and derivative terms as updated within the same call, never
\* clamped; with dt = 1, clamp (-10,10), kp = 2, ki = 1, kd = 0, two calls
\* step(1) return 3 and then 4.
C2_RawOutput ==
    [][ IsStep => \A e \in {Arg}, i1 \in {i'}, d1 \in {d'} :
          /\ ret' = FAdd(FAdd(FMul(kp, e), FMul(ki, i1)), FMul(kd, d1))
          /\ ( /\ dt = One /\ clamp_lo = R(-10, 1) /\ clamp_hi = R(10, 1)
               /\ kp = R(2, 1) /\ ki = One /\ kd = Zero /\ e = One
               => /\ n' = 1 => ret' = R(3, 1)
                  /\ (n' = 2 /\ call = <<"step", One>> /\ ret = R(3, 1))
                        => ret' = R(4, 1) ) ]_vars

\* C2 witness: the second step(1) of the scenario has returned 4.
C2_Witness ==
    /\ dt = One /\ clamp_lo = R(-10, 1) /\ clamp_hi = R(10, 1)
    /\ kp = R(2, 1) /\ ki = One /\ kd = Zero
    /\ n = 2
    /\ call = <<"step", One>>
    /\ i = R(2, 1)
    /\ ret = R(4, 1)

\* C3. After every call of step the unclamped flag equals
\* (clamp_lo < u) /\ (u < clamp_hi) for the value u the call returned, both
\* comparisons strict (u equal to a bound gives false); the flag is true before
\* the first step and only step changes it.
C3_UnclampedFlag ==
    [][ /\ IsStep => \A u \in {ret'} :
                     /\ unclamped' = (FLt(clamp_lo, u) /\ FLt(u, clamp_hi))
                     /\ (u = clamp_lo \/ u = clamp_hi) => ~unclamped'
        /\ n = 0 => unclamped
        /\ ~IsStep => unclamped' = unclamped ]_vars

\* C3 witness: a step has returned exactly clamp_hi and the flag is false.
C3_Witness == call[1] = "step" /\ ret = clamp_hi /\ ~unclamped

\* C4. In every reachable state kp >= 0, ki >= 0, kd >= 0 and 0 <= smooth <= 1,
\* whatever arguments the setters were given.
C4_GainDomains ==
    /\ NonNegative(kp)
    /\ NonNegative(ki)
    /\ NonNegative(kd)
    /\ InUnitInterval(smooth)

\* C4 witness: set_smooth was given NaN after the gains were set and a step
\* was taken.
C4_Witness ==
    /\ call = <<"set_smooth", NaN>>
    /\ n = 1
    /\ kp = R(2, 1) /\ ki = One /\ kd = One
    /\ smooth = Half

\* C5. Fail-silent setters: a setter given an argument outside its domain
\* (not >= 0 for a gain, not in [0,1] for smooth) changes no field; given an
\* argument in its domain it sets the field it names to the argument and
\* changes no other field.
C5_FailSilentSetters ==
    [][ ~IsStep => \A a \in {Arg} :
          /\ UNCHANGED <<dt, clamp_lo, clamp_hi, p, i, d, e_prev, unclamped>>
          /\ IsSetter("set_kp") =>
                /\ UNCHANGED <<ki, kd, smooth>>
                /\ kp' = IF NonNegative(a) THEN a ELSE kp
          /\ IsSetter("set_ki") =>
                /\ UNCHANGED <<kp, kd, smooth>>
                /\ ki' = IF NonNegative(a) THEN a ELSE ki
          /\ IsSetter("set_kd") =>
                /\ UNCHANGED <<kp, ki, smooth>>
                /\ kd' = IF NonNegative(a) THEN a ELSE kd
          /\ IsSetter("set_smooth") =>
                /\ UNCHANGED <<kp, ki, kd>>
                /\ smooth' = IF InUnitInterval(a) THEN a ELSE smooth ]_vars

\* C5 witness: set_kp(-1) has been called on a controller with kp = 2, which
\* it kept.
C5_Witness ==
    /\ call = <<"set_kp", R(-1, 1)>>
    /\ kp = R(2, 1)
    /\ n = 1

C7_Original ==
    (FLt(clamp_lo, Zero) /\ FLt(Zero, clamp_hi) /\ zrun[1] /\ n > 0)
        => /\ call[1] = "step" => ret = Zero
           /\ unclamped
           /\ i = FMul(dt, zrun[2])

\* C7 amended. The same, for as long as the terms i and d are finite (d is not
\* from the first step on when dt = 0).
C7_ZeroGains ==
    (/\ FLt(clamp_lo, Zero) /\ FLt(Zero, clamp_hi) /\ zrun[1] /\ n > 0
     /\ IsFinite(i) /\ IsFinite(d))
        => /\ call[1] = "step" => ret = Zero
           /\ unclamped
           /\ i = FMul(dt, zrun[2])

\* C7 witness: dt = 2, three steps with zero gains, the errors summing to 2.
C7_Witness ==
    /\ FLt(clamp_lo, Zero) /\ FLt(Zero, clamp_hi)
    /\ dt = R(2, 1)
    /\ n = 3
    /\ call = <<"step", Zero>>
    /\ zrun = <<TRUE, R(2, 1)>>
    /\ i = R(4, 1)
    /\ IsFinite(d)
    /\ ret = Zero
    /\ unclamped

\* C8 as stated: dt > 0 and clamp_lo < clamp_hi in every reachable state of
\* every controller new returns.
C8_Original == FLt(Zero, dt) /\ FLt(clamp_lo, clamp_hi)

\* C8 amended. dt, clamp_lo and clamp_hi are never modified: in every
\* reachable state they are the arguments new was given, which new does not
\* validate; dt > 0 and clamp_lo < clamp_hi hold for the lifetime of the
\* instance exactly when the arguments satisfied them.
C8_CtorFieldsFixed ==
    /\ dt = new_dt
    /\ clamp_lo = new_clamp[1]
    /\ clamp_hi = new_clamp[2]
    /\ FLt(Zero, dt) <=> FLt(Zero, new_dt)
    /\ FLt(clamp_lo, clamp_hi) <=> FLt(new_clamp[1], new_clamp[2])

\* C8 witness: a controller built with dt = 0 has taken a step, which divided
\* by dt.
C8_Witness ==
    /\ n = 1
    /\ call = <<"step", One>>
    /\ dt = Zero
    /\ d = PInf

\* C9. The proportional-term field p is never written after construction:
\* p is 0 in every reachable state, whatever kp and the errors are.
C9_PNeverWritten == p = Zero

\* C9 witness: a step with kp = 2 and e = 1 has run, and p is not kp*e.
C9_Witness ==
    /\ call = <<"step", One>>
    /\ kp = R(2, 1)
    /\ p # FMul(kp, e_prev)

\* C10 as stated. Integrator latch-up: with kp = 0 and kd = 0 and no setter
\* called since, a step that follows a step which left unclamped false leaves
\* i unchanged, returns the same output ki*i, and leaves unclamped false.
C10_Original ==
    [][ (IsStep /\ call[1] = "step" /\ kp = Zero /\ kd = Zero /\ ~unclamped)
          => /\ i' = i
             /\ ret' = ret
             /\ ret' = FMul(ki, i)
             /\ ~unclamped' ]_vars

\* C10 amended. Under the same conditions the step leaves i unchanged and
\* unclamped false; it returns the same output ki*i when the derivative term
\* is finite before and after it (when it is not, as from the first step on
\* when dt = 0, the output is NaN).
C10_LatchUp ==
    [][ (IsStep /\ call[1] = "step" /\ kp = Zero /\ kd = Zero /\ ~unclamped)
          => /\ i' = i
             /\ ~unclamped'
             /\ \A d1 \in {d'} :
                  /\ IsFinite(d) /\ IsFinite(d1) => ret' = ret /\ ret' = FMul(ki, i)
                  /\ ~IsFinite(d1) => IsNaN(ret') ]_vars

\* C10 witness: ki = 1, the first step(-1) saturated low with i = -2, and two
\* steps with the opposite sign have left i and the output where they were.
C10_Witness ==
    /\ n = 3
    /\ call = <<"step", One>>
    /\ kp = Zero /\ kd = Zero /\ ki = One
    /\ zrun = <<FALSE, Zero>>
    /\ dt = R(2, 1)
    /\ i = R(-2, 1)
    /\ ret = R(-2, 1)
    /\ ~unclamped

====
